---- MODULE Spec2Model ----
(***************************************************************************)
(* Realization sets of uncertain traces (proved-core).                     *)
(*                                                                         *)
(* realization_set(trace) = BehaviorGraph -> BehaviorNet ->                *)
(* acyclic_net_variants -> calculate_realizations_probabilities ->         *)
(* get_unique_realizations.                                                *)
(*                                                                         *)
(* Conventions of the model:                                               *)
(*  - event indices are 1..n (Python: 0..n-1);                             *)
(*  - Python's None label is the string "None";                            *)
(*  - timestamps are naturals;                                             *)
(*  - probabilities are exact decimals: a weight w stands for w/10 and a   *)
(*    realization probability p stands for p/Unit;                         *)
(*  - the value returned by scipy's nquad is not computed: a probability   *)
(*    that contains it as a factor is flagged "timed";                     *)
(*  - hash(x) == hash(y) is modelled as x = y for pm4py Markings (hash of  *)
(*    the tokens per place) and Events (hash of the str() of the items).   *)
(***************************************************************************)
EXTENDS Integers, Sequences, FiniteSets, Bags, TLC

VARIABLES trace, pc, graph, net, stack, visited, trace_realizations,
          add_probability, unique_realizations, marking, fired, other, keys,
          apriori

vars == <<trace, pc, graph, net, stack, visited, trace_realizations,
          add_probability, unique_realizations, marking, fired, other, keys,
          apriori>>

(***************************************************************************)
(* Bounds                                                                  *)
(***************************************************************************)
MaxEvents == 2          \* events per trace (Spec, SpecNet)
MaxTime == 1            \* latest timestamp (Spec, SpecNet)
MaxAlternatives == 3    \* label alternatives, absent included, per trace (Spec, SpecNet)
MaxDepth == 8           \* recursion limit of explore_marking
MaxSweepEvents == 4     \* events per trace (SpecGraph)
MaxSweepTime == 2       \* latest timestamp (SpecGraph)
MaxRealizations == 2    \* realizations per realization set (SpecSupport)
MaxLogLen == 2          \* realization sets per uncertain log (SpecSupport)

Range(s) == {s[i] : i \in DOMAIN s}

(***************************************************************************)
(* Input: uncertain events                                                 *)
(***************************************************************************)
\* An event record of a pm4py Trace.  name: value of activity_key;
\* children: the (label, weight) items of event[u_activity_key]['children']
\* (<<>> when the key is absent); ts: value of timestamp_key;
\* interval: u_timestamp_min_key and u_timestamp_max_key present;
\* hasMissing: u_missing_key present.
Ev(name, children, ts, interval, tmin, tmax, hasMissing, missing) ==
    [name |-> name, children |-> children, ts |-> ts, interval |-> interval,
     tmin |-> tmin, tmax |-> tmax, hasMissing |-> hasMissing, missing |-> missing]

\* the value of ts for an event record without timestamp_key
NoTimestamp == -1

NoInfo == [ts |-> 0, hasMissing |-> FALSE, missing |-> 0, hasInterval |-> FALSE,
           tmin |-> 0, tmax |-> 0, hasAct |-> FALSE, act |-> 0]

(***************************************************************************)
(* BehaviorGraph                                                           *)
(***************************************************************************)
\* the value of name for an event record without activity_key
NoLabel == "absent"

\* event[self.timestamp_key] of process_event raises KeyError for an event
\* record without timestamp_key, event[self.activity_key] for one that has
\* neither u_activity_key nor activity_key
RaisesKeyError(tr) ==
    \E k \in DOMAIN tr :
        \/ tr[k].ts = NoTimestamp
        \/ tr[k].children = <<>> /\ tr[k].name = NoLabel

\* common_uncertainty_info of process_event
CommonInfo(event) ==
    [ts |-> event.ts,
     hasMissing |-> event.hasMissing,
     missing |-> IF event.hasMissing THEN event.missing ELSE 0,
     hasInterval |-> event.interval,
     tmin |-> IF event.interval THEN event.tmin ELSE 0,
     tmax |-> IF event.interval THEN event.tmax ELSE 0,
     hasAct |-> FALSE, act |-> 0]

\* the missing probability stored unchanged for the absent alternative
MissingUnchanged(m) == m

\* the complement stored under u_missing_key for the absent alternative
MissingComplement(m) == 10 - m

\* process_event: the (label, uncertainty_info) options of one event
process_event(event) ==
    LET common == CommonInfo(event)
        labelled == IF event.children # <<>>
                    THEN [k \in 1..Len(event.children) |->
                            [label |-> event.children[k][1],
                             info |-> [common EXCEPT !.hasAct = TRUE,
                                                     !.act = event.children[k][2]]]]
                    ELSE << [label |-> event.name, info |-> common] >>
        absent == IF event.hasMissing /\ event.missing <= 10
                  THEN << [label |-> "None",
                           info |-> [common EXCEPT !.missing = MissingComplement(event.missing)]] >>
                  ELSE << >>
    IN labelled \o absent

\* add_node_tuples with the two bounds of an interval exchanged
add_node_tuples_swapped(event, id) ==
    IF ~event.interval
    THEN << [time |-> event.ts, id |-> id, close |-> FALSE],
            [time |-> event.ts, id |-> id, close |-> TRUE] >>
    ELSE << [time |-> event.tmax, id |-> id, close |-> FALSE],
            [time |-> event.tmin, id |-> id, close |-> TRUE] >>

\* add_node_tuples: the open (close = FALSE) and close (close = TRUE) markers
add_node_tuples(event, id) ==
    IF ~event.interval
    THEN << [time |-> event.ts, id |-> id, close |-> FALSE],
            [time |-> event.ts, id |-> id, close |-> TRUE] >>
    ELSE << [time |-> event.tmin, id |-> id, close |-> FALSE],
            [time |-> event.tmax, id |-> id, close |-> TRUE] >>

\* the sort key with close markers before open markers at equal time
KeyLessCloseFirst(a, b) == \/ a.time < b.time
                           \/ a.time = b.time /\ a.close /\ ~b.close

\* the sort key operator.itemgetter(0): the timestamp alone
KeyLessTimeOnly(a, b) == a.time < b.time

\* the sort key operator.itemgetter(0, 2): (timestamp, timestamp_type), False < True
KeyLess(a, b) == \/ a.time < b.time
                 \/ a.time = b.time /\ ~a.close /\ b.close

RECURSIVE SortedInsert(_, _)
SortedInsert(s, x) ==
    IF s = <<>> THEN <<x>>
    ELSE IF KeyLess(x, Head(s)) THEN <<x>> \o s
    ELSE <<Head(s)>> \o SortedInsert(Tail(s), x)

\* list.sort is stable
RECURSIVE StableSort(_)
StableSort(s) ==
    IF s = <<>> THEN <<>>
    ELSE SortedInsert(StableSort(SubSeq(s, 1, Len(s) - 1)), s[Len(s)])

RECURSIVE AllMarkers(_, _)
AllMarkers(tr, n) ==
    IF n = 0 THEN <<>> ELSE AllMarkers(tr, n - 1) \o add_node_tuples(tr[n], n)

\* create_nodes_tuples: the sorted boundary markers
create_nodes_tuples(tr) == StableSort(AllMarkers(tr, Len(tr)))

\* the inner loop without the early stop: an edge to every later open marker
RECURSIVE ScanForwardNoBreak(_, _, _, _, _)
ScanForwardNoBreak(ms, u, j, edge, edges_list) ==
    IF j > Len(ms) THEN edges_list
    ELSE IF ~ms[j].close
         THEN ScanForwardNoBreak(ms, u, j + 1, <<u, ms[j].id>>,
                                 Append(edges_list, <<u, ms[j].id>>))
         ELSE ScanForwardNoBreak(ms, u, j + 1, edge, edges_list)

\* inner loop of add_edges_from_nodes for the close marker of node u
RECURSIVE ScanForward(_, _, _, _, _)
ScanForward(ms, u, j, edge, edges_list) ==
    IF j > Len(ms) THEN edges_list
    ELSE IF ~ms[j].close
         THEN ScanForward(ms, u, j + 1, <<u, ms[j].id>>,
                          Append(edges_list, <<u, ms[j].id>>))
         ELSE IF edge \in Range(edges_list)
              THEN edges_list
              ELSE ScanForward(ms, u, j + 1, edge, edges_list)

RECURSIVE SweepFrom(_, _, _)
SweepFrom(ms, i, edges_list) ==
    IF i > Len(ms) THEN edges_list
    ELSE SweepFrom(ms, i + 1,
                   IF ms[i].close
                   THEN ScanForward(ms, ms[i].id, i + 1, <<>>, edges_list)
                   ELSE edges_list)

\* add_edges_from_nodes: the edges emitted by the sweep
add_edges_from_nodes(ms) == Range(SweepFrom(ms, 1, <<>>))

\* add_nodes_from_graph: node id -> labels and u_dict (label -> uncertainty_info)
add_nodes_from_graph(tr) ==
    [id \in 1..Len(tr) |->
        LET opts == process_event(tr[id])
        IN [labels |-> {opts[k].label : k \in DOMAIN opts},
            u_dict |-> [l \in {opts[k].label : k \in DOMAIN opts} |->
                          LET last == CHOOSE k \in DOMAIN opts :
                                        /\ opts[k].label = l
                                        /\ \A k2 \in DOMAIN opts :
                                              opts[k2].label = l => k2 <= k
                          IN opts[last].info]]]

\* BehaviorGraph.__init__
BehaviorGraph(tr) ==
    [nodes |-> add_nodes_from_graph(tr),
     edges |-> add_edges_from_nodes(create_nodes_tuples(tr))]

EmptyGraph == [nodes |-> <<>>, edges |-> {}]

predecessors(g, n) == {e[1] : e \in {x \in g.edges : x[2] = n}}
successors(g, n) == {e[2] : e \in {x \in g.edges : x[1] = n}}

(***************************************************************************)
(* BehaviorNet                                                             *)
(***************************************************************************)
Place(kind, from, to) == [kind |-> kind, from |-> from, to |-> to]
source_place == Place("source", 0, 0)
sink_place == Place("sink", 0, 0)
place_from_source(n) == Place("source_to", 0, n)
place_between(n, m) == Place("between", n, m)
place_to_sink(n) == Place("to_sink", n, 0)

Transition(name, node, label) == [name |-> name, node |-> node, label |-> label]
source_trans == Transition("t_source", 0, "None")
sink_trans == Transition("t_sink", 0, "None")

\* node_trans[node_id]: one transition per label of the node
node_trans(g, n) == {Transition("t", n, l) : l \in g.nodes[n].labels}

NodeIds(g) == DOMAIN g.nodes
StartNodes(g) == {n \in NodeIds(g) : predecessors(g, n) = {}}
EndNodes(g) == {n \in NodeIds(g) : successors(g, n) = {}}

AllNodeTrans(g) == UNION {node_trans(g, n) : n \in NodeIds(g)}

\* the arcs place -> transition without the arcs from place_from_source to the
\* transitions of the start nodes
in_arcs_no_source(g) ==
    {<<source_place, source_trans>>}
    \cup UNION {{<<place_between(e[1], e[2]), t>> : t \in node_trans(g, e[2])} : e \in g.edges}
    \cup {<<place_to_sink(n), sink_trans>> : n \in EndNodes(g)}

\* the arcs place -> transition added by BehaviorNet.__init__
in_arcs(g) ==
    {<<source_place, source_trans>>}
    \cup UNION {{<<place_from_source(n), t>> : t \in node_trans(g, n)} : n \in StartNodes(g)}
    \cup UNION {{<<place_between(e[1], e[2]), t>> : t \in node_trans(g, e[2])} : e \in g.edges}
    \cup {<<place_to_sink(n), sink_trans>> : n \in EndNodes(g)}

\* the arcs transition -> place without the arcs from the transitions of a
\* node to place_between
out_arcs_no_between(g) ==
    {<<sink_trans, sink_place>>}
    \cup {<<source_trans, place_from_source(n)>> : n \in StartNodes(g)}
    \cup UNION {{<<t, place_to_sink(n)>> : t \in node_trans(g, n)} : n \in EndNodes(g)}

\* the arcs transition -> place added by BehaviorNet.__init__
out_arcs(g) ==
    {<<sink_trans, sink_place>>}
    \cup {<<source_trans, place_from_source(n)>> : n \in StartNodes(g)}
    \cup UNION {{<<t, place_between(e[1], e[2])>> : t \in node_trans(g, e[1])} : e \in g.edges}
    \cup UNION {{<<t, place_to_sink(n)>> : t \in node_trans(g, n)} : n \in EndNodes(g)}

\* Marking({place: 1})
Marking(places) == SetToBag(places)

\* BehaviorNet.__init__
BehaviorNet(g) ==
    [places |-> {source_place, sink_place}
                \cup {place_from_source(n) : n \in StartNodes(g)}
                \cup {place_between(e[1], e[2]) : e \in g.edges}
                \cup {place_to_sink(n) : n \in EndNodes(g)},
     transitions |-> {source_trans, sink_trans} \cup AllNodeTrans(g),
     in_arcs |-> in_arcs(g),
     out_arcs |-> out_arcs(g),
     uncertainty_dict |-> [t \in AllNodeTrans(g) |-> g.nodes[t.node].u_dict[t.label]],
     initial_marking |-> Marking({source_place}),
     final_marking |-> Marking({sink_place})]

EmptyNet == [places |-> {}, transitions |-> {}, in_arcs |-> {}, out_arcs |-> {},
             uncertainty_dict |-> <<>>, initial_marking |-> EmptyBag,
             final_marking |-> EmptyBag]

(***************************************************************************)
(* pm4py semantics (petri_net.semantics) and acyclic_net_variants          *)
(***************************************************************************)
PreSet(pn, t) == {a[1] : a \in {x \in pn.in_arcs : x[2] = t}}
PostSet(pn, t) == {a[2] : a \in {x \in pn.out_arcs : x[1] = t}}

\* semantics.is_enabled: every input place holds a token (arc weights are 1)
is_enabled(t, pn, m) ==
    /\ t \in pn.transitions
    /\ \A p \in PreSet(pn, t) : CopiesIn(p, m) >= 1

enabled_transitions(pn, m) == {t \in pn.transitions : is_enabled(t, pn, m)}

\* semantics.execute: a new marking; places left with no token are removed
execute(t, pn, m) == (m (-) SetToBag(PreSet(pn, t))) (+) SetToBag(PostSet(pn, t))

\* Event({activity_key: transition.label}) with next_event[uncertainty_dict_key].
\* node is the graph node of the fired transition: it is not an item of the
\* pm4py Event and takes no part in its hash; it identifies the trace position.
next_event(pn, t) ==
    [label |-> t.label,
     info |-> IF t \in DOMAIN pn.uncertainty_dict THEN pn.uncertainty_dict[t] ELSE NoInfo,
     node |-> t.node]

\* what hash() of an Event sees: its items
Items(ev) == [label |-> ev.label, info |-> ev.info]

\* the memo key with the labels of the partial trace and not the uncertainty
\* information of its events
hash_labels_only(m, partial) == <<m, [k \in DOMAIN partial |-> partial[k].label]>>

\* the memo key without the partial trace: the marking alone
hash_marking_only(m, partial) == m

\* hash((curr_marking, tuple(curr_partial_trace)))
hash_curr_pair(m, partial) == <<m, [k \in DOMAIN partial |-> Items(partial[k])]>>

\* the partial trace handed to the recursive call of explore_marking
next_partial_trace(pn, t, partial) ==
    IF t.name \notin {"t_source", "t_sink"}
    THEN Append(partial, next_event(pn, t))
    ELSE partial

Frame(m, partial, todo) ==
    [curr_marking |-> m, curr_partial_trace |-> partial, todo |-> todo]

(***************************************************************************)
(* Probabilities and aggregation                                           *)
(***************************************************************************)
RECURSIVE Pow10(_)
Pow10(n) == IF n = 0 THEN 1 ELSE 10 * Pow10(n - 1)

\* the factor 1.0 of PA and of P_missing: an event contributes at most one
\* decimal digit to each
One == Pow10(MaxEvents)

\* the probability 1.0 of the product PO * PA
Unit == One * One

\* p * (w / 10)
Times(p, w) == (p * w) \div 10

\* calculate_PA with "=" in place of "*=": the last weight instead of the product
RECURSIVE calculate_PA_assign(_)
calculate_PA_assign(sigma) ==
    IF sigma = <<>> THEN One
    ELSE LET rest == calculate_PA_assign(SubSeq(sigma, 1, Len(sigma) - 1))
             uncertainty_info == sigma[Len(sigma)].info
         IN IF uncertainty_info.hasAct THEN Times(One, uncertainty_info.act) ELSE rest

\* calculate_PA: product of the weights of the chosen labels
RECURSIVE calculate_PA(_)
calculate_PA(sigma) ==
    IF sigma = <<>> THEN One
    ELSE LET rest == calculate_PA(SubSeq(sigma, 1, Len(sigma) - 1))
             uncertainty_info == sigma[Len(sigma)].info
         IN IF uncertainty_info.hasAct THEN Times(rest, uncertainty_info.act) ELSE rest

\* the missing probabilities left out of the product
calculate_P_missing_skip(sigma) == One

\* calculate_P_missing: product of the values stored under u_missing_key
RECURSIVE calculate_P_missing(_)
calculate_P_missing(sigma) ==
    IF sigma = <<>> THEN One
    ELSE LET rest == calculate_P_missing(SubSeq(sigma, 1, Len(sigma) - 1))
             uncertainty_info == sigma[Len(sigma)].info
         IN IF uncertainty_info.hasMissing THEN Times(rest, uncertainty_info.missing) ELSE rest

\* calculate_PO: whether the nquad integral I_rho is a factor of the result
UsesIntegral(sigma) == \E k \in DOMAIN sigma : sigma[k].info.hasInterval

\* calculate_integral: the pair (area, error estimate) returned by nquad;
\* neither number is computed
calculate_integral(sigma) == [I_rho |-> "area", error |-> "abserr"]

\* calculate_PO: P_missing, times I_rho when an event has an interval (timed);
\* the error estimate of the pair is bound to a name and not used
calculate_PO(sigma) ==
    LET P_missing == calculate_P_missing(sigma)
    IN IF UsesIntegral(sigma)
       THEN LET pair == calculate_integral(sigma)
            IN [prob |-> P_missing, timed |-> pair.I_rho = "area"]
       ELSE [prob |-> P_missing, timed |-> FALSE]

\* trace.attributes[trace_probability_key] = PO * PA; prob stands for the
\* product without I_rho, timed tells that I_rho is a factor of the attribute
trace_probability(sigma) ==
    LET PO == calculate_PO(sigma)
    IN [prob |-> PO.prob * calculate_PA(sigma), timed |-> PO.timed]

NoProbability == [prob |-> -1, timed |-> FALSE]

\* a pm4py Trace: its events and its trace_probability attribute
Realization(events, attributes) == [events |-> events, attributes |-> attributes]

\* sequence_repr without the filter "is not None"
sequence_repr_keep_none(events) == [k \in DOMAIN events |-> events[k].label]

\* sequence_repr: the labels that are not None
RECURSIVE sequence_repr(_)
sequence_repr(events) ==
    IF events = <<>> THEN <<>>
    ELSE LET rest == sequence_repr(SubSeq(events, 1, Len(events) - 1))
             l == events[Len(events)].label
         IN IF l # "None" THEN Append(rest, l) ELSE rest

RECURSIVE SumProb(_, _)
SumProb(rs, bag) ==
    IF rs = {} THEN 0
    ELSE LET r == CHOOSE x \in rs : TRUE
         IN CopiesIn(r, bag) * r.attributes.prob + SumProb(rs \ {r}, bag)

\* get_unique_realizations: one entry per sequence_repr, probabilities summed
get_unique_realizations(realizations, add_prob) ==
    LET rs == BagToSet(realizations)
        seqs == {sequence_repr(r.events) : r \in rs}
    IN {[seq |-> q,
         prob |-> IF add_prob
                  THEN SumProb({r \in rs : sequence_repr(r.events) = q}, realizations)
                  ELSE -1,
         timed |-> add_prob /\ \E r \in rs : sequence_repr(r.events) = q /\ r.attributes.timed]
        : q \in seqs}

(***************************************************************************)
(* Inputs                                                                  *)
(***************************************************************************)
CertainTime(t) == [ts |-> t, interval |-> FALSE, tmin |-> 0, tmax |-> 0]
IntervalTime(a, b) == [ts |-> a, interval |-> TRUE, tmin |-> a, tmax |-> b]
\* u_timestamp_min_key and u_timestamp_max_key without timestamp_key
IntervalOnly(a, b) == [ts |-> NoTimestamp, interval |-> TRUE, tmin |-> a, tmax |-> b]

MkEvent(name, children, time, hasMissing, missing) ==
    Ev(name, children, time.ts, time.interval, time.tmin, time.tmax, hasMissing, missing)

YZ == << <<"Y", 6>>, <<"Z", 4>> >>

PipelineTimes == {CertainTime(t) : t \in 0..MaxTime} \cup {IntervalTime(0, MaxTime)}

PipelineEvents ==
    {MkEvent(l, <<>>, tm, FALSE, 0) : l \in {"X", "Y"}, tm \in PipelineTimes}
    \cup {MkEvent(l, <<>>, tm, TRUE, 3) : l \in {"X"}, tm \in PipelineTimes}
    \cup {MkEvent("", YZ, tm, FALSE, 0) : tm \in PipelineTimes}
    \cup {MkEvent("", YZ, tm, TRUE, 3) : tm \in PipelineTimes}

NumAlternatives(tr) ==
    LET n(e) == Len(process_event(e))
        RECURSIVE total(_)
        total(k) == IF k = 0 THEN 0 ELSE n(tr[k]) + total(k - 1)
    IN total(Len(tr))

\* [event0: label X, t = 0], [event1: labels {Y: 0.6, Z: 0.4}, t = 5]
LabelScenario == << MkEvent("X", <<>>, CertainTime(0), FALSE, 0),
                    MkEvent("", YZ, CertainTime(5), FALSE, 0) >>

\* [event0: label A, t = 0, missing probability 0.3]
MissingScenario == << MkEvent("A", <<>>, CertainTime(0), TRUE, 3) >>

\* the certain timestamps of a trace are 0, 1, ... without a gap
Dense(tr) ==
    LET used == {tr[i].ts : i \in {k \in DOMAIN tr : ~tr[k].interval}}
    IN \A t \in used : t = 0 \/ t - 1 \in used

\* four events with the occurrence times [0,0], [0,1], [1,2], [2,2]
SweepScenario == << MkEvent("X", <<>>, CertainTime(0), FALSE, 0),
                    MkEvent("X", <<>>, IntervalTime(0, 1), FALSE, 0),
                    MkEvent("X", <<>>, IntervalTime(1, 2), FALSE, 0),
                    MkEvent("X", <<>>, CertainTime(2), FALSE, 0) >>

\* two events with label alternatives, the first certainly before the second
ProductScenario == << MkEvent("", YZ, CertainTime(0), FALSE, 0),
                      MkEvent("", YZ, CertainTime(1), FALSE, 0) >>

\* one event whose label weights 0.6 and 0.3 do not sum to 1
InconsistentScenario ==
    << MkEvent("", << <<"Y", 6>>, <<"Z", 3>> >>, CertainTime(0), FALSE, 0) >>

\* one event that has a timestamp interval and no single timestamp
IntervalOnlyScenario == << MkEvent("X", <<>>, IntervalOnly(0, 1), FALSE, 0) >>

\* one event without timestamp_key and without the interval keys
NoTimestampScenario ==
    << Ev("X", <<>>, NoTimestamp, FALSE, 0, 0, FALSE, 0) >>

\* one event without activity_key and without u_activity_key
NoLabelScenario == << MkEvent(NoLabel, <<>>, CertainTime(0), FALSE, 0) >>

\* one event with missing probability 1.0
CertainMissingScenario == << MkEvent("A", <<>>, CertainTime(0), TRUE, 10) >>

PipelineTraces ==
    {tr \in UNION {[1..n -> PipelineEvents] : n \in 0..MaxEvents} :
        NumAlternatives(tr) <= MaxAlternatives /\ Dense(tr)}
    \cup {LabelScenario, MissingScenario, SweepScenario, ProductScenario,
          InconsistentScenario, IntervalOnlyScenario, NoTimestampScenario,
          NoLabelScenario, CertainMissingScenario}

\* traces of events labelled X with certain timestamps or intervals min < max
SweepTimes ==
    {CertainTime(t) : t \in 0..MaxSweepTime}
    \cup {IntervalTime(ab[1], ab[2]) :
             ab \in {x \in (0..MaxSweepTime) \X (0..MaxSweepTime) : x[1] < x[2]}}

SweepEvents == {MkEvent("X", <<>>, tm, FALSE, 0) : tm \in SweepTimes}

SweepTraces == UNION {[1..n -> SweepEvents] : n \in 0..MaxSweepEvents}

(***************************************************************************)
(* realization_set as a state machine                                      *)
(*                                                                         *)
(* The variables trace .. fired are the local variables of the call of     *)
(* realization_set that is running; other holds the local variables of a   *)
(* second call that is suspended (SpecWorkers), NoWorker when there is     *)
(* none.                                                                   *)
(***************************************************************************)
\* the default values of the key parameters of realization_set
DEFAULT_NAME_KEY == "concept:name"
DEFAULT_TIMESTAMP_KEY == "time:timestamp"
DEFAULT_U_TIMESTAMP_MIN_KEY == "uncertainty:time:timestamp_min"

\* the key parameters of a call of realization_set; u_timestamp_min_key
\* stands for the two interval keys
Keys(activity_key, timestamp_key, u_timestamp_min_key) ==
    [activity_key |-> activity_key, timestamp_key |-> timestamp_key,
     u_timestamp_min_key |-> u_timestamp_min_key]

DefaultKeys == Keys(DEFAULT_NAME_KEY, DEFAULT_TIMESTAMP_KEY, DEFAULT_U_TIMESTAMP_MIN_KEY)

\* the local variables of a call of uSupport(x, u_log): i is the position of
\* the for loop in u_log; NoCall when uSupport is not called
SupportCall(x, u_log) ==
    [pc |-> "loop", x |-> x, u_log |-> u_log, i |-> 1,
     min_support_count |-> 0, max_support_count |-> 0,
     min_support |-> <<0, 1>>, max_support |-> <<0, 1>>]

NoCall == [SupportCall({}, <<>>) EXCEPT !.pc = "none"]

\* the local variables of a call of realization_set(tr) that has not started
Worker(tr) ==
    [trace |-> tr, pc |-> "start", graph |-> EmptyGraph, net |-> EmptyNet,
     stack |-> <<>>, visited |-> {}, trace_realizations |-> EmptyBag,
     add_probability |-> FALSE, unique_realizations |-> {},
     marking |-> EmptyBag, fired |-> <<>>]

NoWorker == Worker(<<>>)

InitFor(traces) ==
    /\ trace \in traces
    /\ pc = "start"
    /\ graph = EmptyGraph
    /\ net = EmptyNet
    /\ stack = <<>>
    /\ visited = {}
    /\ trace_realizations = EmptyBag
    /\ add_probability = FALSE
    /\ unique_realizations = {}
    /\ marking = EmptyBag
    /\ fired = <<>>
    /\ other = NoWorker
    /\ keys = DefaultKeys
    /\ apriori = NoCall

Init == InitFor(PipelineTraces)

InitSweep == InitFor(SweepTraces)

\* behavior_graph = BehaviorGraph(trace, ...); a KeyError of process_event
\* propagates to the caller of realization_set
BuildGraph ==
    /\ pc = "start"
    /\ IF RaisesKeyError(trace)
       THEN pc' = "KeyError" /\ UNCHANGED graph
       ELSE pc' = "graph" /\ graph' = BehaviorGraph(trace)
    /\ UNCHANGED <<other, keys, apriori>>
    /\ UNCHANGED <<trace, net, stack, visited, trace_realizations,
                   add_probability, unique_realizations, marking, fired>>

\* behavior_net = BehaviorNet(behavior_graph)
BuildNet ==
    /\ pc = "graph"
    /\ net' = BehaviorNet(graph)
    /\ marking' = BehaviorNet(graph).initial_marking
    /\ pc' = "net"
    /\ UNCHANGED <<other, keys, apriori>>
    /\ UNCHANGED <<trace, graph, stack, visited, trace_realizations,
                   add_probability, unique_realizations, fired>>

\* acyclic_net_variants: explore_marking(initial_marking, [])
StartExplore ==
    /\ pc = "net"
    /\ pc' = "explore"
    /\ IF net.initial_marking = net.final_marking
       THEN /\ trace_realizations' = trace_realizations (+) SetToBag({Realization(<<>>, NoProbability)})
            /\ UNCHANGED <<stack, visited>>
       ELSE /\ visited' = {hash_curr_pair(net.initial_marking, <<>>)}
            /\ stack' = << Frame(net.initial_marking, <<>>,
                                 enabled_transitions(net, net.initial_marking)) >>
            /\ UNCHANGED trace_realizations
    /\ UNCHANGED <<other, keys, apriori>>
    /\ UNCHANGED <<trace, graph, net, add_probability, unique_realizations, marking, fired>>

Top == stack[Len(stack)]
\* a firing that updates the marking of the activation in place
ConsumedInPlace(t) ==
    [stack EXCEPT ![Len(stack)].todo = @ \ {t},
                  ![Len(stack)].curr_marking = execute(t, net, @)]

\* the for loop of the top activation moves past transition t
Consumed(t) == [stack EXCEPT ![Len(stack)].todo = @ \ {t}]

\* the loop body calls explore_marking on the final marking: the realization is recorded
ExploreRecord ==
    /\ pc = "explore" /\ stack # <<>>
    /\ \E t \in Top.todo :
         LET next_marking == execute(t, net, Top.curr_marking)
             partial == next_partial_trace(net, t, Top.curr_partial_trace)
         IN /\ next_marking = net.final_marking
            /\ trace_realizations' =
                 trace_realizations (+) SetToBag({Realization(partial, NoProbability)})
            /\ stack' = Consumed(t)
    /\ UNCHANGED <<other, keys, apriori>>
    /\ UNCHANGED <<trace, pc, graph, net, visited, add_probability,
                   unique_realizations, marking, fired>>

\* the loop body calls explore_marking on a visited pair: the call returns at once
ExplorePruned ==
    /\ pc = "explore" /\ stack # <<>>
    /\ \E t \in Top.todo :
         LET next_marking == execute(t, net, Top.curr_marking)
             partial == next_partial_trace(net, t, Top.curr_partial_trace)
         IN /\ next_marking # net.final_marking
            /\ hash_curr_pair(next_marking, partial) \in visited
            /\ stack' = Consumed(t)
    /\ UNCHANGED <<other, keys, apriori>>
    /\ UNCHANGED <<trace, pc, graph, net, visited, trace_realizations,
                   add_probability, unique_realizations, marking, fired>>

\* the loop body calls explore_marking on a new pair: a new activation
ExploreDescend ==
    /\ pc = "explore" /\ stack # <<>>
    /\ Len(stack) < MaxDepth
    /\ \E t \in Top.todo :
         LET next_marking == execute(t, net, Top.curr_marking)
             partial == next_partial_trace(net, t, Top.curr_partial_trace)
         IN /\ next_marking # net.final_marking
            /\ hash_curr_pair(next_marking, partial) \notin visited
            /\ visited' = visited \cup {hash_curr_pair(next_marking, partial)}
            /\ stack' = Append(Consumed(t),
                               Frame(next_marking, partial,
                                     enabled_transitions(net, next_marking)))
    /\ UNCHANGED <<other, keys, apriori>>
    /\ UNCHANGED <<trace, pc, graph, net, trace_realizations, add_probability,
                   unique_realizations, marking, fired>>

\* the recursion limit is reached: RecursionError propagates to the caller
ExploreOverflow ==
    /\ pc = "explore" /\ stack # <<>>
    /\ Len(stack) >= MaxDepth
    /\ \E t \in Top.todo :
         LET next_marking == execute(t, net, Top.curr_marking)
             partial == next_partial_trace(net, t, Top.curr_partial_trace)
         IN /\ next_marking # net.final_marking
            /\ hash_curr_pair(next_marking, partial) \notin visited
    /\ pc' = "RecursionError"
    /\ stack' = <<>>
    /\ UNCHANGED <<other, keys, apriori>>
    /\ UNCHANGED <<trace, graph, net, visited, trace_realizations, add_probability,
                   unique_realizations, marking, fired>>

\* the for loop of an activation is exhausted: it returns
ExploreReturn ==
    /\ pc = "explore" /\ stack # <<>>
    /\ Top.todo = {}
    /\ stack' = SubSeq(stack, 1, Len(stack) - 1)
    /\ UNCHANGED <<other, keys, apriori>>
    /\ UNCHANGED <<trace, pc, graph, net, visited, trace_realizations,
                   add_probability, unique_realizations, marking, fired>>

\* acyclic_net_variants returns trace_realizations
ExploreDone ==
    /\ pc = "explore" /\ stack = <<>>
    /\ pc' = "enumerated"
    /\ UNCHANGED <<other, keys, apriori>>
    /\ UNCHANGED <<trace, graph, net, stack, visited, trace_realizations,
                   add_probability, unique_realizations, marking, fired>>

WithProbability(bag) ==
    LET rs == BagToSet(bag)
        RECURSIVE build(_)
        build(S) == IF S = {} THEN EmptyBag
                    ELSE LET r == CHOOSE x \in S : TRUE
                         IN [x \in {Realization(r.events, trace_probability(r.events))}
                               |-> CopiesIn(r, bag)] (+) build(S \ {r})
    IN build(rs)

\* process_event_seq(sigma) is called by calculate_integral with its default
\* keys: an event whose uncertainty information has no interval under the
\* default interval keys is read at event_info[DEFAULT_TIMESTAMP_KEY], which
\* raises KeyError when the timestamp was stored under another key
process_event_seq_raises(sigma, k) ==
    \E i \in DOMAIN sigma :
        /\ ~(sigma[i].info.hasInterval
               /\ k.u_timestamp_min_key = DEFAULT_U_TIMESTAMP_MIN_KEY)
        /\ k.timestamp_key # DEFAULT_TIMESTAMP_KEY

\* calculate_PO calls calculate_integral for a realization with an interval
calculate_integral_raises(realizations, k) ==
    \E r \in BagToSet(realizations) :
        UsesIntegral(r.events) /\ process_event_seq_raises(r.events, k)

\* acyclic_net_variants is called without activity_key and stores the labels
\* under DEFAULT_NAME_KEY; get_unique_realizations reads event[activity_key]
\* of every event of every realization
sequence_repr_raises(realizations, k) ==
    /\ k.activity_key # DEFAULT_NAME_KEY
    /\ \E r \in BagToSet(realizations) : r.events # <<>>

\* add_probability = True: calculate_realizations_probabilities(trace_realizations)
CalculateProbabilities ==
    /\ pc = "enumerated"
    /\ add_probability' = TRUE
    /\ IF calculate_integral_raises(trace_realizations, keys)
       THEN pc' = "KeyError" /\ UNCHANGED trace_realizations
       ELSE /\ trace_realizations' = WithProbability(trace_realizations)
            /\ pc' = "probabilities"
    /\ UNCHANGED <<other, keys, apriori>>
    /\ UNCHANGED <<trace, graph, net, stack, visited, unique_realizations, marking, fired>>

\* add_probability = False
SkipProbabilities ==
    /\ pc = "enumerated"
    /\ add_probability' = FALSE
    /\ pc' = "probabilities"
    /\ UNCHANGED <<other, keys, apriori>>
    /\ UNCHANGED <<trace, graph, net, stack, visited, trace_realizations,
                   unique_realizations, marking, fired>>

\* unique_realizations = get_unique_realizations(trace_realizations, add_probability)
Aggregate ==
    /\ pc = "probabilities"
    /\ IF sequence_repr_raises(trace_realizations, keys)
       THEN pc' = "KeyError" /\ UNCHANGED unique_realizations
       ELSE /\ unique_realizations' =
                 get_unique_realizations(trace_realizations, add_probability)
            /\ pc' = "done"
    /\ UNCHANGED <<other, keys, apriori>>
    /\ UNCHANGED <<trace, graph, net, stack, visited, trace_realizations,
                   add_probability, marking, fired>>

Next ==
    \/ BuildGraph
    \/ BuildNet
    \/ StartExplore
    \/ ExploreRecord
    \/ ExplorePruned
    \/ ExploreDescend
    \/ ExploreOverflow
    \/ ExploreReturn
    \/ ExploreDone
    \/ CalculateProbabilities
    \/ SkipProbabilities
    \/ Aggregate

Spec == Init /\ [][Next]_vars

(***************************************************************************)
(* The token game of the behavior net                                      *)
(***************************************************************************)
\* one firing of an enabled transition (semantics.execute) from the marking
\* reached so far; firing sequences one step longer than a sound net of the
\* trace allows are not extended
Fire ==
    /\ pc = "net"
    /\ Len(fired) <= Len(trace) + 2
    /\ \E t \in enabled_transitions(net, marking) :
         /\ marking' = execute(t, net, marking)
         /\ fired' = Append(fired, t)
    /\ UNCHANGED <<other, keys, apriori>>
    /\ UNCHANGED <<trace, pc, graph, net, stack, visited, trace_realizations,
                   add_probability, unique_realizations>>

NextNet ==
    \/ BuildGraph
    \/ BuildNet
    \/ Fire

SpecNet == Init /\ [][NextNet]_vars

\* graph and net construction alone, on longer traces of overlapping intervals
NextGraph ==
    \/ BuildGraph
    \/ BuildNet

SpecGraph == InitSweep /\ [][NextGraph]_vars

(***************************************************************************)
(* acyclic_net_variants on a net with a cycle                              *)
(***************************************************************************)
loop_place == Place("loop", 0, 0)

\* source -> t_source -> loop_place -> t_sink -> sink, and a transition that
\* takes the token of loop_place and puts it back.  A transition named
\* t_source or t_sink adds no event to the partial trace.
LoopNet(name, label) ==
    [places |-> {source_place, loop_place, sink_place},
     transitions |-> {source_trans, sink_trans, Transition(name, 1, label)},
     in_arcs |-> {<<source_place, source_trans>>,
                  <<loop_place, Transition(name, 1, label)>>,
                  <<loop_place, sink_trans>>},
     out_arcs |-> {<<source_trans, loop_place>>,
                   <<Transition(name, 1, label), loop_place>>,
                   <<sink_trans, sink_place>>},
     uncertainty_dict |-> <<>>,
     initial_marking |-> Marking({source_place}),
     final_marking |-> Marking({sink_place})]

CyclicNets == {LoopNet(name, label) : name \in {"t", "t_source", "t_sink"},
                                      label \in {"A", "B", "None"}}

\* acyclic_net_variants(net, initial_marking, final_marking) is called
InitCyclic ==
    /\ trace = <<>>
    /\ pc = "net"
    /\ graph = EmptyGraph
    /\ net \in CyclicNets
    /\ marking = net.initial_marking
    /\ stack = <<>>
    /\ visited = {}
    /\ trace_realizations = EmptyBag
    /\ add_probability = FALSE
    /\ unique_realizations = {}
    /\ fired = <<>>
    /\ other = NoWorker
    /\ keys = DefaultKeys
    /\ apriori = NoCall

NextCyclic ==
    \/ StartExplore
    \/ ExploreRecord
    \/ ExplorePruned
    \/ ExploreDescend
    \/ ExploreOverflow
    \/ ExploreReturn
    \/ ExploreDone

SpecCyclic == InitCyclic /\ [][NextCyclic]_vars

(***************************************************************************)
(* Two calls of realization_set run by two workers                         *)
(***************************************************************************)
\* two events with distinct labels and the same certain timestamp
ConcurrentScenario == << MkEvent("X", <<>>, CertainTime(0), FALSE, 0),
                         MkEvent("Y", <<>>, CertainTime(0), FALSE, 0) >>

\* two events with the same label and the same certain timestamp
IdenticalScenario == << MkEvent("Y", <<>>, CertainTime(0), FALSE, 0),
                        MkEvent("Y", <<>>, CertainTime(0), FALSE, 0) >>

WorkerTraces == {<<>>, ConcurrentScenario, IdenticalScenario, MissingScenario}

\* a memo kept in one set that both calls use
SharedVisited == visited

\* visited = set() is a local variable of acyclic_net_variants: the worker
\* that resumes finds the memo of its own call
SwitchedVisited == other.visited

InitWorkers ==
    /\ trace \in WorkerTraces
    /\ pc = "start"
    /\ graph = EmptyGraph
    /\ net = EmptyNet
    /\ stack = <<>>
    /\ visited = {}
    /\ trace_realizations = EmptyBag
    /\ add_probability = FALSE
    /\ unique_realizations = {}
    /\ marking = EmptyBag
    /\ fired = <<>>
    /\ other \in {Worker(tr) : tr \in WorkerTraces}
    /\ keys = DefaultKeys
    /\ apriori = NoCall

\* the scheduler suspends the running call and resumes the other one; every
\* variable of the pipeline is local to its call
Switch ==
    /\ other' = [trace |-> trace, pc |-> pc, graph |-> graph, net |-> net,
                 stack |-> stack, visited |-> visited,
                 trace_realizations |-> trace_realizations,
                 add_probability |-> add_probability,
                 unique_realizations |-> unique_realizations,
                 marking |-> marking, fired |-> fired]
    /\ trace' = other.trace
    /\ pc' = other.pc
    /\ graph' = other.graph
    /\ net' = other.net
    /\ stack' = other.stack
    /\ visited' = SwitchedVisited
    /\ trace_realizations' = other.trace_realizations
    /\ add_probability' = other.add_probability
    /\ unique_realizations' = other.unique_realizations
    /\ marking' = other.marking
    /\ fired' = other.fired
    /\ UNCHANGED <<keys, apriori>>

NextWorkers ==
    \/ Next
    \/ Switch

SpecWorkers == InitWorkers /\ [][NextWorkers]_vars

(***************************************************************************)
(* realization_set called with configured keys                             *)
(***************************************************************************)
\* an event with a certain timestamp and a concurrent event with an interval
MixedScenario == << MkEvent("X", <<>>, CertainTime(0), FALSE, 0),
                    MkEvent("Y", <<>>, IntervalTime(0, 1), FALSE, 0) >>

\* traces whose fields are stored under the configured keys
KeyTraces == WorkerTraces \cup {MixedScenario, LabelScenario}

KeyConfigurations ==
    {DefaultKeys,
     Keys("label", DEFAULT_TIMESTAMP_KEY, DEFAULT_U_TIMESTAMP_MIN_KEY),
     Keys(DEFAULT_NAME_KEY, "time", DEFAULT_U_TIMESTAMP_MIN_KEY),
     Keys("label", "time", "time_min")}

InitKeys ==
    /\ trace \in KeyTraces
    /\ keys \in KeyConfigurations
    /\ apriori = NoCall
    /\ pc = "start"
    /\ graph = EmptyGraph
    /\ net = EmptyNet
    /\ stack = <<>>
    /\ visited = {}
    /\ trace_realizations = EmptyBag
    /\ add_probability = FALSE
    /\ unique_realizations = {}
    /\ marking = EmptyBag
    /\ fired = <<>>
    /\ other = NoWorker

SpecKeys == InitKeys /\ [][Next]_vars

(***************************************************************************)
(* uSupport of the pattern-mining layer (UA_Apriori.py)                    *)
(*                                                                         *)
(* A realization is the sequence of its labels; a realization set is       *)
(* modelled as a set of realizations, since all() and any() depend neither *)
(* on the order nor on the multiplicity of the list.  A support value      *)
(* count / num_traces is the pair <<count, num_traces>>.                   *)
(***************************************************************************)
AprioriLabels == {"a", "b"}

AprioriRealizations == {<<>>, <<"a">>, <<"b">>, <<"a", "b">>}

RealizationSets ==
    {rs \in SUBSET AprioriRealizations : Cardinality(rs) <= MaxRealizations}

UncertainLogs == UNION {[1..n -> RealizationSets] : n \in 1..MaxLogLen}

\* set(event[DEFAULT_NAME_KEY] for event in realization)
LabelSet(realization) == {realization[k] : k \in DOMAIN realization}

\* events = [set(...) for realization in realization_sets]
EventSets(realization_sets) == {LabelSet(r) : r \in realization_sets}

\* all(x.issubset(realization) for realization in events)
all_issubset(x, events) == \A realization \in events : x \subseteq realization

\* any(x.issubset(realization) for realization in events)
any_issubset(x, events) == \E realization \in events : x \subseteq realization

InitSupport ==
    /\ apriori \in {SupportCall(x, u_log) : x \in SUBSET AprioriLabels, u_log \in UncertainLogs}
    /\ trace = <<>>
    /\ pc = "start"
    /\ graph = EmptyGraph
    /\ net = EmptyNet
    /\ stack = <<>>
    /\ visited = {}
    /\ trace_realizations = EmptyBag
    /\ add_probability = FALSE
    /\ unique_realizations = {}
    /\ marking = EmptyBag
    /\ fired = <<>>
    /\ other = NoWorker
    /\ keys = DefaultKeys

\* one iteration of: for realization_sets in u_log
uSupportIterate ==
    /\ apriori.pc = "loop"
    /\ apriori.i <= Len(apriori.u_log)
    /\ LET events == EventSets(apriori.u_log[apriori.i])
       IN apriori' =
            [apriori EXCEPT
               !.i = @ + 1,
               !.min_support_count =
                   IF all_issubset(apriori.x, events) THEN @ + 1 ELSE @,
               !.max_support_count =
                   IF any_issubset(apriori.x, events) THEN @ + 1 ELSE @]
    /\ UNCHANGED <<trace, pc, graph, net, stack, visited, trace_realizations,
                   add_probability, unique_realizations, marking, fired, other, keys>>

\* num_traces = len(u_log); return (min_support, max_support)
uSupportReturn ==
    /\ apriori.pc = "loop"
    /\ apriori.i > Len(apriori.u_log)
    /\ LET num_traces == Len(apriori.u_log)
       IN apriori' =
            [apriori EXCEPT
               !.pc = "returned",
               !.min_support = <<apriori.min_support_count, num_traces>>,
               !.max_support = <<apriori.max_support_count, num_traces>>]
    /\ UNCHANGED <<trace, pc, graph, net, stack, visited, trace_realizations,
                   add_probability, unique_realizations, marking, fired, other, keys>>

NextSupport ==
    \/ uSupportIterate
    \/ uSupportReturn

SpecSupport == InitSupport /\ [][NextSupport]_vars

(***************************************************************************)
(* Properties                                                              *)
(***************************************************************************)
\* the occurrence interval of an event: a certain timestamp t is [t, t]
Lower(e) == IF e.interval THEN e.tmin ELSE e.ts
Upper(e) == IF e.interval THEN e.tmax ELSE e.ts

\* event u necessarily occurs before event v
NecessarilyBefore(tr, u, v) == Upper(tr[u]) < Lower(tr[v])

\* the nodes reachable from the nodes of S by a path of at least one edge
RECURSIVE ReachFrom(_, _, _)
ReachFrom(g, S, seen) ==
    LET nxt == UNION {successors(g, n) : n \in S} \ seen
    IN IF nxt = {} THEN seen ELSE ReachFrom(g, nxt, seen \cup nxt)

HasPath(g, u, v) == v \in ReachFrom(g, {u}, {})

Built == pc \notin {"start", "KeyError"}
Returned == pc = "done"
Fraction(tenths) == (tenths * Unit) \div 10

TotalProbability(entries) ==
    LET RECURSIVE total(_)
        total(S) == IF S = {} THEN 0
                    ELSE LET x == CHOOSE y \in S : TRUE IN x.prob + total(S \ {x})
    IN total(entries)

Untimed == \A k \in DOMAIN trace : ~trace[k].interval

\* C1: the probabilities of the entries returned with add_probability = True
\* sum to 1.0 (stated for the traces whose probabilities contain no integral)
C1_MassConservation ==
    (Returned /\ add_probability /\ Untimed)
        => TotalProbability(unique_realizations) = Unit

NoUncertainty(tr) ==
    \A k \in DOMAIN tr : tr[k].children = <<>> /\ ~tr[k].interval /\ ~tr[k].hasMissing

InputLabels(tr) == [k \in DOMAIN tr |-> tr[k].name]

\* C2: a trace without uncertainty yields exactly one realization, the input
\* label sequence in recording order, with probability 1.0
C2_NoUncertainty ==
    (Returned /\ add_probability /\ NoUncertainty(trace))
        => unique_realizations =
             {[seq |-> InputLabels(trace), prob |-> Unit, timed |-> FALSE]}

\* C3: the transitive closure of the edges emitted by the sweep is the
\* necessarily-before relation
C3_GraphComplete ==
    Built => \A u, v \in DOMAIN trace :
                NecessarilyBefore(trace, u, v) <=> HasPath(graph, u, v)

\* C4: in every enumerated realization an event that necessarily occurs
\* before another one is placed before it
C4_RealizationsRespectTimestamps ==
    \A r \in BagToSet(trace_realizations) :
        \A i, j \in DOMAIN r.events :
            NecessarilyBefore(trace, r.events[i].node, r.events[j].node) => i < j

\* C5: a marking reached by firing from the initial marking enables no
\* transition exactly when it is the final marking
C5_NetSound ==
    pc = "net" =>
        /\ enabled_transitions(net, marking) = {} => marking = net.final_marking
        /\ marking = net.final_marking => enabled_transitions(net, marking) = {}

\* C6: acyclic_net_variants returns: the exploration never runs into the
\* recursion limit
C6_EnumerationReturns == pc # "RecursionError"

\* the complete firing sequences of at most limit further firings from marking m
RECURSIVE CompleteFirings(_, _, _, _)
CompleteFirings(pn, m, prefix, limit) ==
    IF m = pn.final_marking THEN {prefix}
    ELSE IF limit = 0 THEN {}
    ELSE UNION {CompleteFirings(pn, execute(t, pn, m), Append(prefix, t), limit - 1) :
                  t \in enabled_transitions(pn, m)}

AllCompleteFirings == CompleteFirings(net, net.initial_marking, <<>>, Len(trace) + 2)

\* the events of a firing sequence
RECURSIVE EventsOf(_, _)
EventsOf(pn, firing) ==
    IF firing = <<>> THEN <<>>
    ELSE next_partial_trace(pn, firing[Len(firing)],
                            EventsOf(pn, SubSeq(firing, 1, Len(firing) - 1)))

RECURSIVE SumOverFirings(_)
SumOverFirings(fs) ==
    IF fs = {} THEN 0
    ELSE LET f == CHOOSE x \in fs : TRUE
         IN trace_probability(EventsOf(net, f)).prob + SumOverFirings(fs \ {f})

\* C7: the returned set holds exactly one entry for the label sequence of
\* every complete firing sequence, and its probability is the sum of the
\* probabilities of all the complete firing sequences with that label sequence
C7_DeduplicationSums ==
    (Returned /\ add_probability) =>
        \A f \in AllCompleteFirings :
            LET q == sequence_repr(EventsOf(net, f))
                same == {x \in AllCompleteFirings : sequence_repr(EventsOf(net, x)) = q}
            IN /\ Cardinality({e \in unique_realizations : e.seq = q}) = 1
               /\ \A e \in unique_realizations :
                    e.seq = q => e.prob = SumOverFirings(same)

\* C8: the trace [A, t = 0, missing probability 0.3] yields exactly the
\* entries (empty sequence, 0.3) and ([A], 0.7)
C8_MissingScenario ==
    (Returned /\ add_probability /\ trace = MissingScenario) =>
        unique_realizations =
            {[seq |-> <<>>, prob |-> Fraction(3), timed |-> FALSE],
             [seq |-> <<"A">>, prob |-> Fraction(7), timed |-> FALSE]}

LabelScenarioResult ==
    {[seq |-> <<"X", "Y">>, prob |-> Fraction(6), timed |-> FALSE],
     [seq |-> <<"X", "Z">>, prob |-> Fraction(4), timed |-> FALSE]}

\* the weight the input trace gives to the label chosen for an event (in tenths)
ChosenWeight(tr, ev) ==
    LET children == tr[ev.node].children
    IN IF children = <<>> \/ ev.label = "None" THEN 10
       ELSE children[CHOOSE k \in DOMAIN children : children[k][1] = ev.label][2]

RECURSIVE ChosenWeights(_, _)
ChosenWeights(tr, events) ==
    IF events = <<>> THEN One
    ELSE Times(ChosenWeights(tr, SubSeq(events, 1, Len(events) - 1)),
               ChosenWeight(tr, events[Len(events)]))

\* C9: the trace [X, t = 0], [{Y: 0.6, Z: 0.4}, t = 5] yields exactly the entries
\* ([X,Y], 0.6) and ([X,Z], 0.4); the probability of every realization is its
\* missing factor times the product of the weights that the trace gives to the
\* chosen labels (1 for an event without label alternatives)
C9_LabelFactor ==
    /\ (Returned /\ add_probability /\ trace = LabelScenario)
          => unique_realizations = LabelScenarioResult
    /\ (pc \in {"probabilities", "done"} /\ add_probability)
          => \A r \in BagToSet(trace_realizations) :
                r.attributes.prob =
                    calculate_P_missing(r.events) * ChosenWeights(trace, r.events)

C9_Witness ==
    /\ Returned /\ add_probability /\ trace = LabelScenario
    /\ unique_realizations = LabelScenarioResult

\* two events with distinct certain labels whose occurrence intervals overlap
Overlapping(tr) ==
    /\ Len(tr) = 2
    /\ tr[1].children = <<>> /\ tr[2].children = <<>>
    /\ tr[1].name # tr[2].name
    /\ ~NecessarilyBefore(tr, 1, 2)
    /\ ~NecessarilyBefore(tr, 2, 1)

ReturnedSequences == {e.seq : e \in unique_realizations}

\* C10: for two events with distinct certain labels and overlapping intervals
\* the returned set contains both orderings of the two labels
C10_BothOrderings ==
    (Returned /\ Overlapping(trace)) =>
        /\ <<trace[1].name, trace[2].name>> \in ReturnedSequences
        /\ <<trace[2].name, trace[1].name>> \in ReturnedSequences

C10_Witness ==
    /\ Returned /\ Overlapping(trace)
    /\ trace[1].interval /\ trace[2].interval
    /\ {<<"X", "Y">>, <<"Y", "X">>} \subseteq ReturnedSequences

\* the positions of a firing sequence at which a transition of node n fires
FiringsOf(firing, n) == {i \in DOMAIN firing : firing[i].node = n}

\* C11: in every firing sequence from the initial marking the alternatives of
\* a node fire at most once altogether; in a complete firing sequence exactly
\* one alternative of every node fires, so the realization it yields has
\* exactly one event (label or absent) per trace position
C11_MutualExclusion ==
    pc = "net" =>
        /\ \A n \in NodeIds(graph) : Cardinality(FiringsOf(fired, n)) <= 1
        /\ marking = net.final_marking =>
              /\ \A n \in NodeIds(graph) : Cardinality(FiringsOf(fired, n)) = 1
              /\ LET events == EventsOf(net, fired)
                 IN /\ Len(events) = Len(trace)
                    /\ {events[k].node : k \in DOMAIN events} = DOMAIN trace

C11_Witness ==
    /\ pc = "net" /\ marking = net.final_marking
    /\ Len(trace) = 2
    /\ \E n \in NodeIds(graph) : Cardinality(node_trans(graph, n)) >= 2
    /\ \A n \in NodeIds(graph) : Cardinality(FiringsOf(fired, n)) = 1


\* C12: in every marking reachable from the initial marking every place holds
\* at most one token
C12_Safe ==
    pc = "net" => \A p \in net.places : CopiesIn(p, marking) <= 1

\* the intervals of the trace have lower bound <= upper bound
WellFormedIntervals(tr) == \A k \in DOMAIN tr : tr[k].interval => tr[k].tmin <= tr[k].tmax

\* C13: the graph of a trace with well-formed intervals has no directed cycle
\* and no self-loop: no node is reachable from itself
C13_Acyclic ==
    (Built /\ WellFormedIntervals(trace)) =>
        \A n \in NodeIds(graph) : ~HasPath(graph, n, n)

C13_Witness ==
    /\ Built /\ WellFormedIntervals(trace)
    /\ Len(trace) = MaxSweepEvents
    /\ \E k \in DOMAIN trace : trace[k].interval
    /\ \E u, v, w \in NodeIds(graph) : <<u, v>> \in graph.edges /\ <<v, w>> \in graph.edges

\* edges_list as add_edges_from_nodes hands it to add_edges_from
EdgesList(tr) == SweepFrom(create_nodes_tuples(tr), 1, <<>>)

\* C14: no edge u -> v of the graph is doubled by another path from u to v of
\* at least two edges, and the sweep emits no edge twice
C14_NoRedundantEdges ==
    Built =>
        /\ \A e \in graph.edges :
              ~\E w \in successors(graph, e[1]) : HasPath(graph, w, e[2])
        /\ LET edges_list == EdgesList(trace)
           IN \A i, j \in DOMAIN edges_list :
                 i # j => edges_list[i] # edges_list[j]

C14_Witness ==
    /\ Built
    /\ \E u, v, w \in NodeIds(graph) :
          /\ <<u, v>> \in graph.edges /\ <<v, w>> \in graph.edges
          /\ NecessarilyBefore(trace, u, w) /\ <<u, w>> \notin graph.edges
    /\ \E u, v, w \in NodeIds(graph) :
          v # w /\ <<u, v>> \in graph.edges /\ <<u, w>> \in graph.edges

\* the observable label sequence of a realization: its labels, absent ones removed
Observable(events) ==
    LET IsLabel(l) == l # "None"
    IN SelectSeq([k \in DOMAIN events |-> events[k].label], IsLabel)

\* C15: get_unique_realizations returns exactly one entry per observable label
\* sequence of its input realizations, no other entry, and no entry with an
\* absent label
C15_AggregatorOutput ==
    Returned =>
        /\ \A e1, e2 \in unique_realizations : e1.seq = e2.seq => e1 = e2
        /\ ReturnedSequences =
              {Observable(r.events) : r \in BagToSet(trace_realizations)}
        /\ \A e \in unique_realizations :
              \A k \in DOMAIN e.seq : e.seq[k] # "None"

C15_Witness ==
    /\ Returned
    /\ Cardinality(unique_realizations) >= 2
    /\ \E r \in BagToSet(trace_realizations) :
          \E k \in DOMAIN r.events : r.events[k].label = "None"
    /\ \E r1, r2 \in BagToSet(trace_realizations) :
          r1 # r2 /\ Observable(r1.events) = Observable(r2.events)

\* a cycle is reachable from the initial marking: some reachable marking is
\* reached again after at least one firing
RECURSIVE ReachableMarkings(_, _, _)
ReachableMarkings(pn, frontier, seen) ==
    LET new == {execute(tm[1], pn, tm[2]) :
                  tm \in {x \in pn.transitions \X frontier :
                            is_enabled(x[1], pn, x[2])}} \ seen
    IN IF new = {} THEN seen ELSE ReachableMarkings(pn, new, seen \cup new)

HasReachableCycle(pn) ==
    LET R == ReachableMarkings(pn, {pn.initial_marking}, {pn.initial_marking})
    IN \E m \in R : \E t \in enabled_transitions(pn, m) :
          m \in ReachableMarkings(pn, {execute(t, pn, m)}, {execute(t, pn, m)})

\* C16: on a net with a reachable cycle acyclic_net_variants ends with a
\* StructuralError: it neither returns a realization list nor fails otherwise
C16_CyclicNetRejected ==
    (HasReachableCycle(net) /\ pc \in {"enumerated", "RecursionError", "StructuralError"})
        => pc = "StructuralError"

\* the sum of the label weights of an event (in tenths)
RECURSIVE WeightSum(_)
WeightSum(children) ==
    IF children = <<>> THEN 0
    ELSE children[Len(children)][2] + WeightSum(SubSeq(children, 1, Len(children) - 1))

InconsistentWeights(tr) ==
    \E k \in DOMAIN tr : tr[k].children # <<>> /\ WeightSum(tr[k].children) # 10

\* C17: a trace with an event whose label weights do not sum to 1 is rejected:
\* no realization set is returned for it
C17_InconsistentRejected ==
    InconsistentWeights(trace) => ~Returned

\* C18: whenever the integral is a factor of a probability, the result carries
\* the error estimate of the integration and a convergence flag beside it
C18_IntegrationErrorSurfaced ==
    /\ \A r \in BagToSet(trace_realizations) :
          r.attributes.timed => {"error", "converged"} \subseteq DOMAIN r.attributes
    /\ \A e \in unique_realizations :
          e.timed => {"error", "converged"} \subseteq DOMAIN e

\* C19: an event record with a timestamp interval and no single timestamp is a
\* valid input: the construction of the graph does not fail on a trace whose
\* events all have a timestamp or an interval
C19_IntervalOnlyAccepted ==
    (\A k \in DOMAIN trace : trace[k].interval \/ trace[k].ts # NoTimestamp)
        => pc # "KeyError"

\* the realizations of the trace whatever the order of exploration: the event
\* sequences (label and uncertainty information) of the complete firing
\* sequences of the net
DistinctRealizations ==
    {[k \in DOMAIN ev |-> Items(ev[k])] :
        ev \in {EventsOf(net, f) : f \in AllCompleteFirings}}

RECURSIVE SumOf(_)
SumOf(S) ==
    IF S = {} THEN 0
    ELSE LET x == CHOOSE y \in S : TRUE
         IN trace_probability(x).prob + SumOf(S \ {x})

\* the entries that follow from the trace alone
ExpectedEntries ==
    {[seq |-> q,
      prob |-> IF add_probability
               THEN SumOf({x \in DistinctRealizations : Observable(x) = q})
               ELSE -1,
      timed |-> add_probability /\ \E x \in DistinctRealizations :
                   Observable(x) = q /\ trace_probability(x).timed]
     : q \in {Observable(x) : x \in DistinctRealizations}}

\* C20: the returned (label sequence, probability) pairs are a function of the
\* trace: every order in which the enabled transitions are explored returns
\* the same set
C20_Deterministic ==
    Returned => unique_realizations = ExpectedEntries

C20_Witness ==
    /\ Returned /\ add_probability
    /\ Len(trace) = 2 /\ graph.edges = {}
    /\ \E n \in NodeIds(graph) : Cardinality(node_trans(graph, n)) >= 2
    /\ Cardinality(unique_realizations) >= 3
    /\ unique_realizations = ExpectedEntries

\* C21: with two calls of realization_set interleaved at every step, each call
\* ends as it does when it runs alone: a call on a non-empty trace returns the
\* result that follows from its own trace, and only a call on the empty trace
\* ends with RecursionError
C21_TraceIndependence ==
    /\ Returned => (trace # <<>> /\ unique_realizations = ExpectedEntries)
    /\ pc = "RecursionError" => trace = <<>>
    /\ other.pc = "done" => other.trace # <<>>
    /\ other.pc = "RecursionError" => other.trace = <<>>

C21_Witness ==
    /\ Returned /\ other.pc = "done"
    /\ trace = ConcurrentScenario /\ other.trace = ConcurrentScenario
    /\ add_probability /\ other.add_probability
    /\ unique_realizations = ExpectedEntries
    /\ other.unique_realizations = unique_realizations
    /\ Cardinality(unique_realizations) = 2

\* the orders of the nodes that respect every edge of the graph
LinearExtensions(g) ==
    LET n == Len(g.nodes)
    IN {p \in [1..n -> 1..n] :
          /\ \A i, j \in 1..n : i # j => p[i] # p[j]
          /\ \A i, j \in 1..n : <<p[i], p[j]>> \in g.edges => i < j}

\* the events a node can contribute: one per alternative
EventsOfNode(g, n) ==
    {[label |-> l, info |-> g.nodes[n].u_dict[l]] : l \in g.nodes[n].labels}

\* every linear extension with every choice of one alternative per node
ReferenceSequences(g) ==
    LET n == Len(g.nodes)
        all == UNION {EventsOfNode(g, k) : k \in 1..n}
    IN UNION {{q \in [1..n -> all] : \A k \in 1..n : q[k] \in EventsOfNode(g, p[k])} :
                 p \in LinearExtensions(g)}

\* the event sequences in the list returned by acyclic_net_variants
EnumeratedSequences ==
    {[k \in DOMAIN r.events |-> Items(r.events[k])] : r \in BagToSet(trace_realizations)}

\* C22: for a non-empty trace the event sequences enumerated on the net are
\* exactly the linear extensions of the graph with every choice of one
\* alternative per node
C22_NetMatchesGraph ==
    (pc = "enumerated" /\ trace # <<>>) =>
        EnumeratedSequences = ReferenceSequences(graph)

C22_Witness ==
    /\ pc = "enumerated" /\ trace = SweepScenario
    /\ Cardinality(LinearExtensions(graph)) = 6
    /\ EnumeratedSequences = ReferenceSequences(graph)

\* the factor (in tenths) that the missing probability of the trace event of
\* ev contributes: m when the event is present, 1 - m when it is absent, 1
\* when the event has no missing probability
MissingFactor(tr, ev) ==
    IF ~tr[ev.node].hasMissing THEN 10
    ELSE IF ev.label # "None" THEN tr[ev.node].missing
    ELSE 10 - tr[ev.node].missing

RECURSIVE MissingFactors(_, _)
MissingFactors(tr, events) ==
    IF events = <<>> THEN One
    ELSE Times(MissingFactors(tr, SubSeq(events, 1, Len(events) - 1)),
               MissingFactor(tr, events[Len(events)]))

\* C23: the probability of every realization is its label factor times, for
\* every event with a missing probability m, m if the event is present and
\* 1 - m if it is absent
C23_MissingFactor ==
    (pc \in {"probabilities", "done"} /\ add_probability) =>
        \A r \in BagToSet(trace_realizations) :
            r.attributes.prob = MissingFactors(trace, r.events) * calculate_PA(r.events)

C23_Witness ==
    /\ Returned /\ add_probability /\ Len(trace) = 2
    /\ \E r \in BagToSet(trace_realizations) :
          /\ \E k \in DOMAIN r.events : r.events[k].label = "None"
          /\ r.attributes.prob = Fraction(7)
    /\ \E r \in BagToSet(trace_realizations) :
          /\ \A k \in DOMAIN r.events : r.events[k].label # "None"
          /\ \E k \in DOMAIN r.events : trace[r.events[k].node].hasMissing
          /\ r.attributes.prob = Fraction(3)

\* C24: the graph has an edge u -> v only if u's upper bound is strictly less
\* than v's lower bound; two events whose bounds coincide get no edge between
\* them in either direction
C24_StrictOrdering ==
    Built =>
        /\ \A e \in graph.edges : NecessarilyBefore(trace, e[1], e[2])
        /\ \A u, v \in DOMAIN trace :
              Upper(trace[u]) = Lower(trace[v]) =>
                  <<u, v>> \notin graph.edges /\ <<v, u>> \notin graph.edges

C24_Witness ==
    /\ Built
    /\ \E u, v \in DOMAIN trace :
          /\ u # v /\ trace[u].interval /\ trace[v].interval
          /\ Upper(trace[u]) = Lower(trace[v])
          /\ <<u, v>> \notin graph.edges /\ <<v, u>> \notin graph.edges
    /\ \E u, v \in DOMAIN trace :
          /\ u # v /\ ~trace[u].interval /\ ~trace[v].interval
          /\ trace[u].ts = trace[v].ts
          /\ <<u, v>> \notin graph.edges /\ <<v, u>> \notin graph.edges
    /\ graph.edges # {}

\* C25: for a non-empty trace the event sequences recorded with pruning on
\* visited (marking, partial trace) pairs are the event sequences of the
\* exploration without pruning, which records every complete firing sequence
C25_MemoPreservesResult ==
    (pc = "enumerated" /\ trace # <<>>) =>
        EnumeratedSequences = DistinctRealizations

C25_Witness ==
    /\ pc = "enumerated" /\ trace # <<>>
    /\ Cardinality(AllCompleteFirings) > Cardinality(DistinctRealizations)
    /\ EnumeratedSequences = DistinctRealizations

\* the activations of explore_marking present before and after a step
KeptFrames == 1..(IF Len(stack) < Len(stack') THEN Len(stack) ELSE Len(stack'))

\* C26: once built, the behavior graph and the behavior net (places,
\* transitions, arcs, uncertainty metadata, initial and final marking) are
\* changed by no step of enumeration, probability evaluation or aggregation,
\* and a firing leaves the marking it was fired from as it was
C26_Immutable ==
    [][ /\ pc \notin {"start", "KeyError"} => graph' = graph
        /\ pc \notin {"start", "KeyError", "graph"} => net' = net
        /\ \A k \in KeptFrames : stack'[k].curr_marking = stack[k].curr_marking
      ]_vars

C26_Witness ==
    /\ pc = "done" /\ add_probability
    /\ trace # <<>>
    /\ visited # {}
    /\ \E h \in visited : h[1] # net.initial_marking
    /\ graph = BehaviorGraph(trace)
    /\ net = BehaviorNet(graph)

\* an event lacks the timestamp field, or both the label field and the
\* label-alternatives field
Malformed(tr) ==
    \E k \in DOMAIN tr :
        \/ tr[k].ts = NoTimestamp /\ ~tr[k].interval
        \/ tr[k].children = <<>> /\ tr[k].name = NoLabel

\* C27: building the graph of a trace with a malformed event ends in a
\* ValidationError and produces no graph, net or realization set; a trace
\* without a malformed event never fails in graph construction
C27_MalformedRejected ==
    /\ Malformed(trace) =>
          /\ pc \in {"start", "ValidationError"}
          /\ graph = EmptyGraph /\ net = EmptyNet /\ unique_realizations = {}
    /\ (\A k \in DOMAIN trace : trace[k].ts # NoTimestamp /\ trace[k].name # NoLabel) =>
          pc # "KeyError"

\* C28: a call with configured keys on a trace stored under those keys ends
\* as the call with the default keys on the renamed trace: it fails with a
\* KeyError only for a trace with a malformed event, and it returns the (label
\* sequence, probability) entries of the trace
C28_KeysHonoured ==
    /\ pc = "KeyError" => RaisesKeyError(trace)
    /\ Returned => unique_realizations = ExpectedEntries

\* the events have pairwise distinct certain timestamps and no interval
DistinctCertain(tr) ==
    /\ \A k \in DOMAIN tr : ~tr[k].interval /\ tr[k].ts # NoTimestamp
    /\ \A i, j \in DOMAIN tr : i # j => tr[i].ts # tr[j].ts

\* the missing probabilities lie in (0, 1]
MissingInRange(tr) ==
    \A k \in DOMAIN tr : tr[k].hasMissing => (0 < tr[k].missing /\ tr[k].missing <= 10)

\* C29: for a trace with pairwise distinct certain timestamps, label weights
\* that sum to 1 per event and missing probabilities in (0, 1], the returned
\* probabilities sum to 1 and each of them lies in [0, 1]
C29_DiscreteMass ==
    (Returned /\ add_probability /\ DistinctCertain(trace)
        /\ ~InconsistentWeights(trace) /\ MissingInRange(trace)) =>
        /\ TotalProbability(unique_realizations) = Unit
        /\ \A e \in unique_realizations : 0 <= e.prob /\ e.prob <= Unit /\ ~e.timed

C29_Witness ==
    /\ Returned /\ add_probability /\ DistinctCertain(trace)
    /\ ~InconsistentWeights(trace) /\ MissingInRange(trace)
    /\ Len(trace) >= 2
    /\ \E k \in DOMAIN trace : trace[k].hasMissing
    /\ Cardinality(unique_realizations) >= 2
    /\ TotalProbability(unique_realizations) = Unit

\* the positions of u_log whose realizations all contain x, and those with
\* at least one realization that contains x
InAll(x, u_log) ==
    {k \in DOMAIN u_log : \A r \in u_log[k] : x \subseteq LabelSet(r)}

InSome(x, u_log) ==
    {k \in DOMAIN u_log : \E r \in u_log[k] : x \subseteq LabelSet(r)}

\* C30: uSupport returns 0 <= min_support <= max_support <= 1, min_support the
\* fraction of traces that contain x in all their realizations and
\* max_support the fraction that contain x in at least one realization
C30_SupportBounds ==
    apriori.pc = "returned" =>
        LET n == Len(apriori.u_log)
        IN /\ apriori.min_support = <<Cardinality(InAll(apriori.x, apriori.u_log)), n>>
           /\ apriori.max_support = <<Cardinality(InSome(apriori.x, apriori.u_log)), n>>
           /\ 0 <= apriori.min_support[1]
           /\ apriori.min_support[1] <= apriori.max_support[1]
           /\ apriori.max_support[1] <= n

====
